---------------------------- MODULE Spec2Model ----------------------------
(***************************************************************************)
(* CircleEnv (aa_simulation/envs/circle_env.py): an RC car following a     *)
(* circle, as a state machine over the environment's fields.               *)
(*                                                                         *)
(* Numbers.  Lengths, velocities, rewards are fixed-point: the integer n   *)
(* stands for n/Scale, and every product, quotient and square root is      *)
(* rounded down to that grid, operation by operation in the order the      *)
(* source performs them.  Angles (yaw, theta) are counted in units of      *)
(* pi/Pi, i.e. 15 degrees, so that pi, pi/2, pi/4 and the sampler's        *)
(* deg2rad(60), deg2rad(270) are exact.                                    *)
(*                                                                         *)
(* Collaborators.  The dynamics model (_model.state_transition) and the    *)
(* collision check (_check_collision) belong to the base class and are     *)
(* not part of this file: a step draws the model's output from             *)
(* ModelOutputs and the check's answer from BOOLEAN.                       *)
(***************************************************************************)
EXTENDS Integers, Sequences, FiniteSets

VARIABLES
    radius,           \* self.radius
    target_velocity,  \* self.target_velocity
    _renderer,        \* TRUE iff self._renderer is not None
    _state,           \* self._state: None or <<x, y, yaw, x_dot, y_dot, yaw_dot>>
    _action,          \* self._action: None or the last action given to step
    lastCall,         \* the last call made on the environment: its arguments,
                      \* what its collaborators were given and answered, its result
    doneSeen          \* history: a step since the last reset returned done = True

vars == <<radius, target_velocity, _renderer, _state, _action, lastCall, doneSeen>>

config == <<radius, target_velocity, _renderer>>

-----------------------------------------------------------------------------
(* Bounds and units *)

\* fixed-point resolution: n stands for n/Scale
Scale == 8

\* actions are opaque control vectors <<1>> .. <<NumActions>>
NumActions == 2

\* _normalize_angle is exercised on every angle within MaxTurns full turns
MaxTurns == 2

\* np.pi, in angle units of 15 degrees
Pi == 12

\* np.inf: above every finite value the arithmetic of this model produces
inf == 1000000

None == << >>

-----------------------------------------------------------------------------
(* Arithmetic *)

Abs(a) == IF a < 0 THEN -a ELSE a

\* a * b on the fixed-point grid
Mul(a, b) == (a * b) \div Scale

\* a / b on the fixed-point grid (b # 0)
Div(a, b) == IF b > 0 THEN (a * Scale) \div b ELSE ((-a) * Scale) \div (-b)

\* np.square
Square(a) == Mul(a, a)

\* the greatest r with r * r <= n
Root(n) == CHOOSE r \in 0..n : r * r <= n /\ n < (r + 1) * (r + 1)

\* Root, tabulated once for the values the model takes roots of
RootTable == [n \in 0..(64 * Scale * Scale) |-> Root(n)]

\* np.sqrt, (.)**0.5 on the fixed-point grid (a >= 0)
Sqrt(a) == RootTable[a * Scale]

\* np.deg2rad, for whole multiples of 15 degrees
deg2rad(d) == (d * Pi) \div 180

\* np.arctan2(a, b) on the eight compass directions (and the origin).  For
\* a = -0.0 and b < 0 numpy answers -pi; the two answers differ by a full
\* turn, which _normalize_angle removes, and ModelOutputs has no such point.
arctan2(a, b) ==
    CASE a = 0 /\ b >= 0     -> 0
      [] a = 0 /\ b < 0      -> Pi
      [] a > 0 /\ b = 0      -> Pi \div 2
      [] a < 0 /\ b = 0      -> -(Pi \div 2)
      [] a > 0 /\ b = a      -> Pi \div 4
      [] a > 0 /\ b = -a     -> 3 * (Pi \div 4)
      [] a < 0 /\ b = a      -> -(3 * (Pi \div 4))
      [] a < 0 /\ b = -a     -> -(Pi \div 4)

-----------------------------------------------------------------------------
(* Input domains *)

\* <<radius, target_velocity>> given to the constructor: 1 m at 1 m/s,
\* 2 m at 0.5 m/s
ConstructorArgs == {<<Scale, Scale>>, <<2 * Scale, Scale \div 2>>}

\* np.random.random() is in [0, 1): its least and greatest values on the grid
Draws == {0, Scale - 1}

Actions == {<<a>> : a \in 1..NumActions}

\* outputs of the dynamics model: on, inside and outside the circles, with
\* yaw inside and outside one turn; never the origin
ModelOutputs ==
    { <<-Scale, 0, deg2rad(270), 0, -Scale, 0>>,
      <<-Scale, 0, deg2rad(90), Scale \div 2, -Scale, Scale \div 4>>,
      <<0, 3 * Scale, deg2rad(-450), Scale, 0, -Scale>>,
      <<Scale, -Scale, deg2rad(45), -Scale, 2 * Scale, 0>>,
      <<2 * Scale, 0, deg2rad(720), 0, 3 * Scale, Scale \div 2>>,
      <<Scale \div 2, 0, deg2rad(-90), -Scale \div 4, 0, Scale>> }

AngleInputs == (-MaxTurns * 2 * Pi - 1) .. (MaxTurns * 2 * Pi + 1)

-----------------------------------------------------------------------------
(* CircleEnv *)

\* mutant: the modulo is forgotten, only the one-step correction remains
_normalize_angle_NoModulo(angle) ==
    IF angle > Pi THEN angle - 2 * Pi ELSE angle

\* _normalize_angle(angle)
_normalize_angle(angle) ==
    LET a == angle % (2 * Pi)
    IN  IF a > Pi THEN a - 2 * Pi ELSE a

\* _state_to_relative(state)
_state_to_relative(state) ==
    LET r == radius
        x == state[1]
        y == state[2]
        yaw == state[3]
        x_dot == state[4]
        y_dot == state[5]
        yaw_dot == state[6]
        dx == Sqrt(Square(x) + Square(y)) - r
        theta == _normalize_angle(arctan2(-x, y) + Pi - yaw)
        ddx == Mul(Div(x, Sqrt(Square(x) + Square(y))), x_dot)
                 + Mul(Div(y, Sqrt(Square(x) + Square(y))), y_dot)
        dtheta == Mul(Div(x, Square(x) + Square(y)), x_dot)
                    - Mul(Div(y, Square(x) + Square(y)), y_dot) - yaw_dot
    IN  <<dx, theta, ddx, dtheta>>

\* mutant: x is not centred on -radius (position_margin/2 is not subtracted)
get_initial_state_NotCentred(u1, u2, u3, u4, u5) ==
    LET angle_margin == deg2rad(60)
        position_margin == Scale \div 2
        velocity_margin == Mul(3 * (Scale \div 2), target_velocity)
        yaw_dot_margin == 2 * Scale
        x == Mul(position_margin, u1) - radius
        yaw == ((angle_margin * u2) \div Scale - angle_margin \div 2) + deg2rad(270)
        x_dot == Mul(velocity_margin, u3) - velocity_margin \div 2
        y_dot == Mul(-velocity_margin, u4)
        yaw_dot == Mul(yaw_dot_margin, u5) - yaw_dot_margin \div 2
    IN  <<x, 0, yaw, x_dot, y_dot, yaw_dot>>

\* get_initial_state, given the five values np.random.random() returns
get_initial_state(u1, u2, u3, u4, u5) ==
    LET angle_margin == deg2rad(60)
        position_margin == Scale \div 2
        velocity_margin == Mul(3 * (Scale \div 2), target_velocity)
        yaw_dot_margin == 2 * Scale
        x == (Mul(position_margin, u1) - position_margin \div 2) - radius
        yaw == ((angle_margin * u2) \div Scale - angle_margin \div 2) + deg2rad(270)
        x_dot == Mul(velocity_margin, u3) - velocity_margin \div 2
        y_dot == Mul(-velocity_margin, u4)
        yaw_dot == Mul(yaw_dot_margin, u5) - yaw_dot_margin \div 2
    IN  <<x, 0, yaw, x_dot, y_dot, yaw_dot>>

\* every state get_initial_state can return
InitialStates ==
    { get_initial_state(u1, u2, u3, u4, u5) :
        u1 \in Draws, u2 \in Draws, u3 \in Draws, u4 \in Draws, u5 \in Draws }

\* mutant: the distance term of the reward loses its absolute value
AdvanceOutcome_NoAbs(nextstate) ==
    LET r == radius
        x == nextstate[1]
        y == nextstate[2]
        x_dot == nextstate[4]
        y_dot == nextstate[5]
        lambda1 == Scale \div 4
        velocity == Sqrt(Square(x_dot) + Square(y_dot))
        vel_diff == velocity - target_velocity
        distance == r - Sqrt(Square(x) + Square(y))
        reward == -distance - Mul(lambda1, Square(vel_diff))
    IN  [ _state |-> nextstate,
          observation |-> _state_to_relative(nextstate),
          reward |-> reward,
          done |-> FALSE,
          dist |-> distance,
          vel |-> vel_diff ]

\* step, lines 86-98: no collision, nextstate is committed and scored
AdvanceOutcome(nextstate) ==
    LET r == radius
        x == nextstate[1]
        y == nextstate[2]
        x_dot == nextstate[4]
        y_dot == nextstate[5]
        lambda1 == Scale \div 4
        velocity == Sqrt(Square(x_dot) + Square(y_dot))
        vel_diff == velocity - target_velocity
        distance == r - Sqrt(Square(x) + Square(y))
        reward == -Abs(distance) - Mul(lambda1, Square(vel_diff))
    IN  [ _state |-> nextstate,
          observation |-> _state_to_relative(nextstate),
          reward |-> reward,
          done |-> FALSE,
          dist |-> distance,
          vel |-> vel_diff ]

\* mutant: a collision ends the episode but is scored like any other step
CollisionOutcome_Shaped(state, nextstate) ==
    [AdvanceOutcome(nextstate) EXCEPT !._state = state, !.done = TRUE]

\* mutant: self._state = nextstate is executed before the collision test
CollisionOutcome_Commit(state, nextstate) ==
    [ _state |-> nextstate,
      observation |-> _state_to_relative(nextstate),
      reward |-> -100 * Scale,
      done |-> TRUE,
      dist |-> inf,
      vel |-> inf ]

\* step, lines 81-85: collision, self._state is not assigned
CollisionOutcome(state, nextstate) ==
    [ _state |-> state,
      observation |-> _state_to_relative(nextstate),
      reward |-> -100 * Scale,
      done |-> TRUE,
      dist |-> inf,
      vel |-> inf ]

\* mutant: once an episode has ended, every later step reports done
StepOutcome_StickyDone(state, nextstate, collision) ==
    IF collision \/ doneSeen
    THEN CollisionOutcome(state, nextstate)
    ELSE AdvanceOutcome(nextstate)

\* mutant: the observation is taken from self._state instead of nextstate
StepOutcome_ObserveRetained(state, nextstate, collision) ==
    IF collision
    THEN [CollisionOutcome(state, nextstate) EXCEPT !.observation = _state_to_relative(state)]
    ELSE AdvanceOutcome(nextstate)

\* the body of step after the collaborators answered: the state retained and
\* the fields of the Step result
StepOutcome(state, nextstate, collision) ==
    IF collision
    THEN CollisionOutcome(state, nextstate)
    ELSE AdvanceOutcome(nextstate)

-----------------------------------------------------------------------------
(* The state machine *)

\* CircleEnv(radius, target_velocity): the base class holds no state and no
\* action yet, and a renderer or none
Init ==
    /\ \E args \in ConstructorArgs :
         /\ radius = args[1]
         /\ target_velocity = args[2]
    /\ _renderer \in BOOLEAN
    /\ _state = None
    /\ _action = None
    /\ lastCall = [op |-> "__init__"]
    /\ doneSeen = FALSE

\* mutant: the last action is left in place
Reset_KeepsAction ==
    \E sampled \in InitialStates :
        /\ _action' = _action
        /\ _state' = sampled
        /\ lastCall' = [ op |-> "reset",
                         ret |-> _state_to_relative(sampled),
                         renderer_resets |-> IF _renderer THEN 1 ELSE 0,
                         after_done |-> doneSeen ]
        /\ doneSeen' = FALSE
        /\ UNCHANGED config

\* reset()
Reset ==
    \E sampled \in InitialStates :
        /\ _action' = None
        /\ _state' = sampled
        /\ lastCall' = [ op |-> "reset",
                         ret |-> _state_to_relative(sampled),
                         renderer_resets |-> IF _renderer THEN 1 ELSE 0,
                         after_done |-> doneSeen ]
        /\ doneSeen' = FALSE
        /\ UNCHANGED config

\* step(action), on an environment that was reset (the training loop calls
\* reset first; before it there is no state to hand to the dynamics model)
Step ==
    /\ _state # None
    /\ \E action \in Actions, nextstate \in ModelOutputs, collision \in BOOLEAN :
         LET out == StepOutcome(_state, nextstate, collision)
         IN  /\ _action' = action
             /\ _state' = out._state
             /\ lastCall' = [ op |-> "step",
                              action |-> action,
                              model_in |-> _state,
                              nextstate |-> nextstate,
                              collision |-> collision,
                              after_done |-> doneSeen,
                              observation |-> out.observation,
                              reward |-> out.reward,
                              done |-> out.done,
                              dist |-> out.dist,
                              vel |-> out.vel ]
             /\ doneSeen' = (doneSeen \/ out.done)
             /\ UNCHANGED config

\* observation_space: Box(low=-inf, high=inf, shape=(4,))
ObservationSpace ==
    /\ lastCall' = [ op |-> "observation_space",
                     ret |-> [low |-> -inf, high |-> inf, shape |-> <<4>>] ]
    /\ UNCHANGED <<config, _state, _action, doneSeen>>

\* mutant: the sampler stores what it returns
GetInitialState_Stores(draws) ==
    \E u1 \in draws, u2 \in draws, u3 \in draws, u4 \in draws, u5 \in draws :
        /\ lastCall' = [ op |-> "get_initial_state",
                         ret |-> get_initial_state(u1, u2, u3, u4, u5) ]
        /\ _state' = get_initial_state(u1, u2, u3, u4, u5)
        /\ UNCHANGED <<config, _action, doneSeen>>

\* get_initial_state, read from outside reset, its draws in `draws'
GetInitialState(draws) ==
    \E u1 \in draws, u2 \in draws, u3 \in draws, u4 \in draws, u5 \in draws :
        /\ lastCall' = [ op |-> "get_initial_state",
                         ret |-> get_initial_state(u1, u2, u3, u4, u5) ]
        /\ UNCHANGED <<config, _state, _action, doneSeen>>

\* _state_to_relative(state)
StateToRelative(states) ==
    \E state \in states :
        /\ lastCall' = [ op |-> "_state_to_relative",
                         arg |-> state,
                         ret |-> _state_to_relative(state) ]
        /\ UNCHANGED <<config, _state, _action, doneSeen>>

\* _normalize_angle(angle)
NormalizeAngle(angles) ==
    \E angle \in angles :
        /\ lastCall' = [ op |-> "_normalize_angle",
                         arg |-> angle,
                         ret |-> _normalize_angle(angle) ]
        /\ UNCHANGED <<config, _state, _action, doneSeen>>

\* the angle _state_to_relative normalizes for a state
HeadingAngle(state) == arctan2(-state[1], state[2]) + Pi - state[3]

\* the environment in use: the helpers act on the retained state, the
\* sampler read from outside reset draws the middle of the range
Next ==
    \/ Reset
    \/ Step
    \/ ObservationSpace
    \/ GetInitialState({Scale \div 2})
    \/ (_state # None /\ StateToRelative({_state}))
    \/ (_state # None /\ NormalizeAngle({HeadingAngle(_state)}))

Spec == Init /\ [][Next]_vars

\* the helpers alone, on every input of the domains
NextPure ==
    \/ ObservationSpace
    \/ GetInitialState(Draws)
    \/ StateToRelative(ModelOutputs \cup InitialStates)
    \/ NormalizeAngle(AngleInputs)

SpecPure == Init /\ [][NextPure]_vars

TypeOK ==
    /\ <<radius, target_velocity>> \in ConstructorArgs
    /\ _renderer \in BOOLEAN
    /\ _state \in {None} \cup InitialStates \cup ModelOutputs
    /\ _action \in {None} \cup Actions
    /\ doneSeen \in BOOLEAN

-----------------------------------------------------------------------------
(* Properties *)

IsStep == lastCall.op = "step"
IsReset == lastCall.op = "reset"

\* the documented range [-pi, pi)
InHalfOpenRange(angle) == -Pi <= angle /\ angle < Pi

\* the sampler's documented margins, for a state of the current configuration
WithinMargins(state) ==
    /\ Len(state) = 6
    /\ -radius - Scale \div 4 <= state[1] /\ state[1] <= -radius + Scale \div 4
    /\ state[2] = 0
    /\ deg2rad(270) - deg2rad(30) <= state[3] /\ state[3] <= deg2rad(270) + deg2rad(30)
    /\ Abs(state[4]) <= Mul(3 * (Scale \div 2), target_velocity)
    /\ Abs(state[5]) <= Mul(3 * (Scale \div 2), target_velocity)
    /\ -Scale <= state[6] /\ state[6] <= Scale

\* C1: whenever the collision check on nextstate is true, step returns
\* reward -100, done True, dist and vel +infinity, and the retained state
\* after the call is the retained state before it.
C1_CollisionPenalty ==
    [][ (lastCall'.op = "step" /\ lastCall'.collision)
          => /\ lastCall'.reward = -100 * Scale
             /\ lastCall'.done = TRUE
             /\ lastCall'.dist = inf
             /\ lastCall'.vel = inf
             /\ _state' = _state ]_vars

\* a colliding step whose nextstate differs from the state that is kept
C1_Witness ==
    /\ IsStep
    /\ lastCall.collision
    /\ lastCall.nextstate # _state
    /\ lastCall.reward = -100 * Scale

\* C2: in every step the returned done flag is true exactly when the
\* collision check returned true, whatever happened in the episode before.
C2_DoneIffCollision ==
    IsStep => (lastCall.done <=> lastCall.collision)

\* a step that does not collide, after a step of the same episode that did
C2_Witness ==
    /\ IsStep
    /\ lastCall.after_done
    /\ ~lastCall.collision
    /\ ~lastCall.done

\* C3: a step that does not collide commits nextstate, returns done False,
\* and returns reward = -|radius - sqrt(x^2+y^2)| - 0.25 * (sqrt(x_dot^2 +
\* y_dot^2) - target_velocity)^2 of the state after the step, with
\* dist = radius - sqrt(x^2+y^2) and vel = sqrt(x_dot^2+y_dot^2) - target_velocity.
C3_AdvanceReward ==
    (IsStep /\ ~lastCall.collision)
      => LET norm == Sqrt(Square(_state[1]) + Square(_state[2]))
             speed == Sqrt(Square(_state[4]) + Square(_state[5]))
         IN  /\ _state = lastCall.nextstate
             /\ lastCall.done = FALSE
             /\ lastCall.dist = radius - norm
             /\ lastCall.vel = speed - target_velocity
             /\ lastCall.reward =
                  -Abs(radius - norm)
                    - Mul(Scale \div 4, Square(speed - target_velocity))

\* a committed step that left the car outside the circle and off the target
\* velocity, from a different state
C3_Witness ==
    /\ IsStep
    /\ ~lastCall.collision
    /\ lastCall.model_in # _state
    /\ lastCall.dist < 0
    /\ lastCall.vel # 0
    /\ lastCall.reward < lastCall.dist

\* C4: _normalize_angle returns a value in [-pi, pi) for every angle, so the
\* heading error theta of every observation returned by reset or step is in
\* [-pi, pi); pi itself is never returned.
C4_HeadingInHalfOpenRange ==
    /\ lastCall.op = "_normalize_angle" => InHalfOpenRange(lastCall.ret)
    /\ lastCall.op = "_state_to_relative" => InHalfOpenRange(lastCall.ret[2])
    /\ IsReset => InHalfOpenRange(lastCall.ret[2])
    /\ IsStep => InHalfOpenRange(lastCall.observation[2])

\* C5: _normalize_angle is idempotent.
C5_NormalizeIdempotent ==
    lastCall.op = "_normalize_angle"
      => _normalize_angle(lastCall.ret) = lastCall.ret

\* an angle more than a turn away, brought back to a negative angle
C5_Witness ==
    /\ lastCall.op = "_normalize_angle"
    /\ lastCall.arg > 2 * Pi
    /\ lastCall.ret < 0
    /\ lastCall.ret # lastCall.arg

\* C6: every state the sampler produces, and so the state retained right
\* after every reset, is a 6-vector within the documented margins.
C6_InitialStateMargins ==
    /\ IsReset => WithinMargins(_state)
    /\ lastCall.op = "get_initial_state" => WithinMargins(lastCall.ret)

\* a reset that drew the least x and a lateral velocity beyond 0.75 of the
\* target velocity
C6_Witness ==
    /\ IsReset
    /\ _state[1] = -radius - Scale \div 4
    /\ _state[5] < -(Mul(3 * (Scale \div 2), target_velocity) \div 2)
    /\ _state[6] < 0

\* C7: reset, in any state, clears the last action, retains a freshly
\* sampled initial state, resets the renderer exactly when there is one, and
\* returns the relative observation of the new state, a 4-vector whose dx
\* is sqrt(x^2+y^2) - radius.
C7_Reset ==
    IsReset
      => /\ _action = None
         /\ _state \in InitialStates
         /\ lastCall.renderer_resets = (IF _renderer THEN 1 ELSE 0)
         /\ lastCall.ret = _state_to_relative(_state)
         /\ Len(lastCall.ret) = 4
         /\ lastCall.ret[1] = Sqrt(Square(_state[1]) + Square(_state[2])) - radius

\* a reset issued after a step that returned done, with a renderer
C7_Witness ==
    /\ IsReset
    /\ lastCall.after_done
    /\ _renderer
    /\ lastCall.renderer_resets = 1
    /\ lastCall.ret[1] # 0

\* C8 as stated: the retained state changes only inside step.
C8_OnlyStepMutates ==
    [][ _state' # _state => lastCall'.op = "step" ]_vars

\* C8 amended: the retained state changes only inside step and reset; the
\* sampler, observation_space, _state_to_relative and _normalize_angle
\* leave it unchanged.
C8_OnlyStepAndResetMutate ==
    [][ _state' # _state => lastCall'.op \in {"step", "reset"} ]_vars

\* the sampler read on a live environment, returning another state than the
\* one retained
C8_Witness ==
    /\ lastCall.op = "get_initial_state"
    /\ _state # None
    /\ lastCall.ret # _state

\* C9 as stated: after every step, the observation is the relative
\* transform of the retained state.
C9_ObservationOfRetained ==
    IsStep => lastCall.observation = _state_to_relative(_state)

\* C9 amended: the observation of every step is the relative transform of
\* the dynamics model's output nextstate, colliding or not; it is the
\* transform of the retained state when there is no collision.
C9_ObservationOfNextstate ==
    IsStep
      => /\ lastCall.observation = _state_to_relative(lastCall.nextstate)
         /\ ~lastCall.collision
              => lastCall.observation = _state_to_relative(_state)

\* a colliding step whose observation is not that of the retained state
C9_Witness ==
    /\ IsStep
    /\ lastCall.collision
    /\ lastCall.observation # _state_to_relative(_state)

\* C10: the retained state only ever becomes the state a reset sampled or a
\* model output whose collision check was false; a colliding step keeps the
\* retained state, every step is computed from the retained state, and
\* every step, colliding or not, overwrites the last action.
C10_RetainedStateIsValid ==
    [][ /\ _state' # _state
          => \/ lastCall'.op = "reset" /\ _state' \in InitialStates
             \/ /\ lastCall'.op = "step"
                /\ ~lastCall'.collision
                /\ _state' = lastCall'.nextstate
        /\ lastCall'.op = "step"
          => /\ lastCall'.model_in = _state
             /\ _action' = lastCall'.action
             /\ lastCall'.collision => _state' = _state ]_vars

\* a colliding step issued after a done step without a reset in between,
\* computed from a model output committed earlier, under a new action
C10_Witness ==
    /\ IsStep
    /\ lastCall.after_done
    /\ lastCall.collision
    /\ lastCall.model_in \in ModelOutputs \ InitialStates
    /\ _state = lastCall.model_in
    /\ lastCall.nextstate # _state
    /\ _action = lastCall.action

=============================================================================
